---- MODULE Spec2Model ----
(***************************************************************************)
(* PlantSense (ESP32 sketch, src/plantSense.ino): the bounded, persisted   *)
(* reading history.  The state is the sketch's globals (history,           *)
(* lastSaveTime), the millis() clock, the LittleFS file /history.json and  *)
(* the position of the sketch (boot, WiFi wait, loop, halted).  The        *)
(* actions are setup() with loadHistory(), addReading() with the eviction  *)
(* loop and saveHistory(), the request handlers that server.handleClient() *)
(* runs (the views and handleClearHistory()) and a power loss.             *)
(*                                                                         *)
(* Floats are tenths (22.3 degrees is 223) or NaN.  unsigned long is 32    *)
(* bits wide on the ESP32 and is kept as two 16-bit limbs, so that the     *)
(* unsigned subtraction of line 126 wraps as the hardware does.            *)
(* DynamicJsonDocument is ArduinoJson 6's fixed-size pool: a value that    *)
(* does not fit is dropped silently on write and is NoMemory on read.      *)
(***************************************************************************)
EXTENDS Integers, Sequences, FiniteSets, TLC

\* ------------------------------------------------------------ bounds
\* rounds of loop() that sample or serve a view, explored after the initial
\* state
MaxAdds == 2
\* the same after an initial state other than the first boot
MaxMoreAdds == 1
\* power losses explored
MaxBoots == 1
\* storage faults (mount, open for reading, open for writing) explored
MaxFaults == 1
\* records of a durable file not written by this sketch
MaxFileRecs == 2
\* rounds of loop() explored when addReading is called every half
\* SAVE_INTERVAL_MS
MaxCadenceRounds == 4

\* ------------------------------------------------- program constants
MAX_HISTORY_POINTS == 500
SAVE_INTERVAL_MS == 300000
\* DynamicJsonDocument doc(8192)
DocCapacity == 8192
\* ArduinoJson 6 on a 32-bit target: one pool slot per array element and per
\* object member (JSON_ARRAY_SIZE(1) = JSON_OBJECT_SIZE(1) = 16)
SlotSize == 16
\* loop(): millis() - lastRead > 5000
SampleEveryMs == 5000
\* setup(): delay(100) and 80 rounds of delay(22) before loadHistory()
SetupDelayMs == 100 + 80 * 22
\* setup(): delay(480) per WiFi poll
WifiPollMs == 480
\* loop() comes round again within a millisecond
LoopMs == 1
\* int on the ESP32
IntMax == 2147483647
IntMin == -IntMax - 1

Min(a, b) == IF a <= b THEN a ELSE b
Max(a, b) == IF a >= b THEN a ELSE b

\* --------------------------------------- unsigned long (32 bits, two limbs)
Limb == 2 ^ 16

U32(n) == [hi |-> (n \div Limb) % Limb, lo |-> n % Limb]

\* a + d modulo 2^32, d a non-negative Int
Add32(a, d) ==
    LET lo == a.lo + (d % Limb)
        hi == a.hi + (d \div Limb) + (lo \div Limb)
    IN  [hi |-> hi % Limb, lo |-> lo % Limb]

\* a subtraction that gives 0 where a is below b
SubNoWrap(a, b) ==
    IF a.hi < b.hi \/ (a.hi = b.hi /\ a.lo < b.lo)
    THEN [hi |-> 0, lo |-> 0]
    ELSE [hi |-> a.hi - b.hi - (IF a.lo < b.lo THEN 1 ELSE 0),
          lo |-> (a.lo - b.lo) % Limb]

\* a - b modulo 2^32 (unsigned subtraction)
Sub32(a, b) ==
    LET lo == a.lo - b.lo
        borrow == IF lo < 0 THEN 1 ELSE 0
    IN  [hi |-> (a.hi - b.hi - borrow) % Limb, lo |-> lo % Limb]

\* a >= n for an unsigned a and a constant n below 2^31
Ge32(a, n) == IF a.hi >= Limb \div 2 THEN TRUE ELSE a.hi * Limb + a.lo >= n

\* an unsigned long below 2^31 as an Int
ToInt(a) == a.hi * Limb + a.lo

\* a / 1000 (the quotient is below 2^23)
Div1000(a) == a.hi * 65 + (a.hi * 536 + a.lo) \div 1000

\* ------------------------------------------------------------- floats
NaN == [nan |-> TRUE, tenths |-> 0]
F(x) == [nan |-> FALSE, tenths |-> x]

\* a conversion that drops the fraction instead of rounding
Truncate(x) == IF x >= 0 THEN x \div 10 ELSE -((-x) \div 10)

\* round(): half away from zero, on tenths
Round(x) == IF x >= 0 THEN (x + 5) \div 10 ELSE -((-x + 5) \div 10)

\* The conversion of NaN to int is undefined behaviour: a build's conversion
\* routine saturates to either end or gives zero
NaNAsInt == {IntMin, 0, IntMax}

\* (int)round(f), u being what the build makes of NaN
IntOfRound(f, u) == IF f.nan THEN u ELSE Round(f.tenths)

\* no clamping at all
NoConstrain(amt, low, high) == amt

\* Arduino's constrain(amt, low, high)
Constrain(amt, low, high) ==
    IF amt < low THEN low ELSE IF amt > high THEN high ELSE amt

\* ------------------------------------------------------------ Reading
\* struct Reading: the conversions of an int to its field types.  A timestamp
\* is millis()/1000 or a non-negative int read from the file, which uint32_t
\* holds unchanged.
ToUint8(v) == v % 256
ToInt8(v) == ((v + 128) % 256) - 128

Reading(ts, m, t, h) ==
    [timestamp |-> ts, moisture |-> ToUint8(m), temp |-> ToInt8(t),
     humidity |-> ToUint8(h)]

\* ------------------------------------------------- the durable file
\* /history.json is absent, holds no byte, holds text that is no JSON, or
\* holds a JSON array.  An element of the array is a function from the keys
\* it has to their integer values.
KeyOrder == <<"ts", "m", "t", "h">>
Keys == {KeyOrder[j] : j \in 1..4}

NoFile == [kind |-> "absent", elems |-> <<>>]
EmptyFile == [kind |-> "empty", elems |-> <<>>]
GarbageFile == [kind |-> "garbage", elems |-> <<>>]
ArrayFile(elems) == [kind |-> "array", elems |-> elems]

\* obj["ts"] = r.timestamp; obj["m"] = ...: the four members in that order
Encode(r) ==
    [ts |-> r.timestamp, m |-> r.moisture, t |-> r.temp, h |-> r.humidity]

\* slots of the pool
DocSlots == DocCapacity \div SlotSize

\* slots left when saveHistory reaches record i: every earlier record took
\* one slot for its array element and one per member
SlotsLeft(i) == DocSlots - (1 + Len(KeyOrder)) * (i - 1)

\* what the document holds of record i of h: createNestedObject() takes one
\* slot and each obj[key] = value one more; an allocation that fails is
\* dropped without an error
SavedElem(h, i) ==
    LET n == Min(Len(KeyOrder), SlotsLeft(i) - 1)
    IN  [k \in {KeyOrder[j] : j \in 1..n} |-> Encode(h[i])[k]]

\* the array serializeJson(doc, file) writes for history h
SaveDoc(h) ==
    LET n == Cardinality({i \in 1..Len(h) : SlotsLeft(i) >= 1})
    IN  [i \in 1..n |-> SavedElem(h, i)]

\* a save whose failed open leaves no file behind
SaveLosingFile(h, f, canWrite) ==
    IF h = <<>> THEN [ok |-> TRUE, file |-> f]
    ELSE IF ~canWrite THEN [ok |-> FALSE, file |-> [kind |-> "absent",
                                                    elems |-> <<>>]]
    ELSE [ok |-> TRUE, file |-> ArrayFile(SaveDoc(h))]

\* a save without the early return of line 84: an empty history is written
\* as an empty array
SaveEmptyToo(h, f, canWrite) ==
    IF ~canWrite THEN [ok |-> FALSE, file |-> f]
    ELSE [ok |-> TRUE, file |-> ArrayFile(SaveDoc(h))]

\* saveHistory(): [ok, file], given whether LittleFS.open(.., "w") succeeds
saveHistory(h, f, canWrite) ==
    IF h = <<>> THEN [ok |-> TRUE, file |-> f]
    ELSE IF ~canWrite THEN [ok |-> FALSE, file |-> f]
    ELSE [ok |-> TRUE, file |-> ArrayFile(SaveDoc(h))]

\* bytes the copied keys take in the pool (each distinct key once, with its
\* terminator)
KeyBytes(ks) == (IF "ts" \in ks THEN 3 ELSE 0) + 2 * Cardinality(ks \ {"ts"})

\* pool bytes deserializeJson needs for the array: the slots, and the keys,
\* which are copied because the input is a stream
DocBytes(elems) ==
    LET members == UNION {{<<i, k>> : k \in DOMAIN elems[i]} :
                          i \in 1..Len(elems)}
    IN  SlotSize * (Len(elems) + Cardinality(members))
        + KeyBytes(UNION {DOMAIN elems[i] : i \in 1..Len(elems)})

\* obj[key] | 0
OrZero(obj, k) == IF k \in DOMAIN obj THEN obj[k] ELSE 0

\* the loop body of loadHistory, lines 71-75
Decode(obj) ==
    Reading(OrZero(obj, "ts"), OrZero(obj, "m"), OrZero(obj, "t"),
            OrZero(obj, "h"))

\* how loadHistory ends on file f, given whether LittleFS.open(.., "r")
\* succeeds
LoadOutcome(f, canRead) ==
    IF f.kind = "absent" THEN "absent"
    ELSE IF ~canRead THEN "openfail"
    ELSE IF f.kind # "array" \/ DocBytes(f.elems) > DocCapacity THEN "error"
    ELSE "ok"

\* a load that does not look at the error of deserializeJson and decodes
\* whatever array the file holds
LoadIgnoringError(h, f, canRead) ==
    IF f.kind = "array" /\ canRead
    THEN [i \in 1..Len(f.elems) |-> Decode(f.elems[i])]
    ELSE <<>>

\* a strict load, which drops every record that lacks a field
LoadStrict(h, f, canRead) ==
    IF LoadOutcome(f, canRead) = "ok"
    THEN LET Whole(o) == DOMAIN o = Keys
             whole == SelectSeq(f.elems, Whole)
         IN  [i \in 1..Len(whole) |-> Decode(whole[i])]
    ELSE <<>>

\* loadHistory(): the history it leaves; whatever was in memory is cleared
loadHistory(h, f, canRead) ==
    IF LoadOutcome(f, canRead) = "ok"
    THEN [i \in 1..Len(f.elems) |-> Decode(f.elems[i])]
    ELSE <<>>

\* --------------------------------------------------------- addReading
\* a Reading whose timestamp and moisture have changed places
MakeReadingMisplaced(nowv, m, ti, hi) ==
    Reading(Constrain(m, 0, 100), Div1000(nowv), Constrain(ti, -20, 80),
            Constrain(hi, 0, 100))

\* lines 111-115: the Reading built at clock value nowv from the moisture m
\* and the converted temperature ti and humidity hi
MakeReading(nowv, m, ti, hi) ==
    Reading(Div1000(nowv), Constrain(m, 0, 100), Constrain(ti, -20, 80),
            Constrain(hi, 0, 100))

\* an eviction that starts one record early (>= for >)
EvictEarly(h) ==
    IF Len(h) >= MAX_HISTORY_POINTS
    THEN SubSeq(h, Len(h) - MAX_HISTORY_POINTS + 2, Len(h)) ELSE h

\* an eviction that removes the newest record instead of the oldest
EvictTail(h) ==
    IF Len(h) > MAX_HISTORY_POINTS THEN SubSeq(h, 1, MAX_HISTORY_POINTS) ELSE h

\* no eviction at all
NoEvict(h) == h

\* an eviction that keeps the oldest record and removes the one after it
EvictSecond(h) ==
    IF Len(h) > MAX_HISTORY_POINTS
    THEN <<Head(h)>> \o SubSeq(h, 3, Len(h)) ELSE h

\* lines 120-122: while (history.size() > MAX_HISTORY_POINTS) erase(begin())
RECURSIVE Evict(_)
Evict(h) == IF Len(h) > MAX_HISTORY_POINTS THEN Evict(Tail(h)) ELSE h

\* line 126: now - lastSaveTime >= SAVE_INTERVAL_MS, in unsigned long
SaveDue(nowv, last) == Ge32(Sub32(nowv, last), SAVE_INTERVAL_MS)

\* a lastSaveTime that is never assigned
StaleSaveTime(nowv, last, due, ok) == last

\* a lastSaveTime that moves only when the save succeeded
RetrySaveTime(nowv, last, due, ok) == IF due /\ ok THEN nowv ELSE last

\* lines 126-129: lastSaveTime after the call; the result of saveHistory()
\* is not looked at
NextSaveTime(nowv, last, due, ok) == IF due THEN nowv ELSE last

\* ---------------------------------------------------- request handlers
\* handleCurrentData: DynamicJsonDocument doc(512)
DataCapacity == 512
\* handleCurrentData: the last 20 readings
RecentWindow == 20

\* the members of the root object of handleCurrentData, lines 339-348; the
\* keys are literals, which the document does not copy
StatusKeys ==
    <<"moisture", "temp", "humidity", "statusClass", "statusText",
      "ringColor", "uptime", "recent">>

\* characters of the decimal form of a non-negative integer
RECURSIVE Digits(_)
Digits(n) == IF n < 10 THEN 1 ELSE 1 + Digits(n \div 10)

\* bytes of String(temp, 1), of temp given in tenths: sign, integer part,
\* point, one decimal
TempChars(x) ==
    (IF x < 0 THEN 1 ELSE 0) + Digits((IF x < 0 THEN -x ELSE x) \div 10) + 2

\* String(hum, 0) is dtostrf(hum, 2, 0, buf) of the Arduino core: it adds
\* 0.5 to the magnitude, divides by the power of ten of the first digit in
\* binary floating point and takes the digits off one by one.  These are
\* the magnitudes, in tenths up to 100.0, ending in .5 whose quotient
\* falls below the decimal one, so that the last digit comes out one less
\* than rounding gives (60.5 prints as 60)
TiesPrintedLow ==
    {115, 135, 225, 235, 275, 325, 335, 375, 405, 425, 455, 475, 505, 525,
     555, 575, 605, 625, 655, 675, 705, 725, 755, 775, 805, 815, 855, 865,
     905, 915, 955, 965}

\* the integer whose digits String(hum, 0) prints, of hum given in tenths,
\* for a humidity from -100.0 to 100.0
HumDigits(x) ==
    LET a == IF x < 0 THEN -x ELSE x
    IN  (a + 5) \div 10 - (IF a \in TiesPrintedLow THEN 1 ELSE 0)

\* bytes of String(hum, 0): the sign of a negative value, even of one that
\* prints as 0, and a space before a single digit (the width is 2)
HumChars(x) ==
    IF x < 0 THEN 1 + Digits(HumDigits(x)) ELSE Max(2, Digits(HumDigits(x)))

\* bytes of statusClass, statusText and ringColor, lines 334-336
ClassChars(m) ==
    IF m < 30 THEN 6 + 11 + 15 ELSE IF m < 52 THEN 4 + 8 + 16 ELSE 4 + 7 + 16

\* pool bytes of the five String values the document copies, each with its
\* terminator, equal strings being stored once as the keys of KeyBytes are:
\* the dash sent for both temperature and humidity when the sensor gave no
\* value is 3 bytes, held once (String(temp, 1) has a point and
\* String(hum, 0) none, so no other two are equal)
StatusBytes(inp) ==
    LET ok == ~inp.t.nan /\ ~inp.h.nan
    IN  (IF ok THEN TempChars(inp.t.tenths) + 1 + HumChars(inp.h.tenths) + 1
         ELSE 3 + 1)
        + ClassChars(inp.m) + 3

\* the marker sent for temperature and humidity when the sensor gave no
\* value: an en dash in the source, written here by its name
NoData == "EN DASH"

\* String(temp, 1), of temp given in tenths
TempString(x) ==
    (IF x < 0 THEN "-" ELSE "")
        \o ToString((IF x < 0 THEN -x ELSE x) \div 10) \o "."
        \o ToString((IF x < 0 THEN -x ELSE x) % 10)

\* String(hum, 0), of hum given in tenths
HumString(x) ==
    (IF x < 0 THEN "-" ELSE IF HumDigits(x) < 10 THEN " " ELSE "")
        \o ToString(HumDigits(x))

\* status fields that print whatever the sensor gave
StatusUnchecked(inp) ==
    [moisture |-> Constrain(inp.m, 0, 100),
     temp |-> IF inp.t.nan THEN "nan" ELSE TempString(inp.t.tenths),
     humidity |-> IF inp.h.nan THEN "nan" ELSE HumString(inp.h.tenths)]

\* lines 324-332 and 339-341: the moisture, temperature and humidity fields
\* of the response, for the moisture percentage inp.m and sensor values
\* inp.t, inp.h
StatusFields(inp) ==
    LET ok == ~inp.h.nan /\ ~inp.t.nan
    IN  [moisture |-> Constrain(inp.m, 0, 100),
         temp |-> IF ok THEN TempString(inp.t.tenths) ELSE NoData,
         humidity |-> IF ok THEN HumString(inp.h.tenths) ELSE NoData]

\* slots left for the elements of "recent" once the status fields are in
RecentSlots(inp) ==
    (DataCapacity - SlotSize * Len(StatusKeys) - StatusBytes(inp))
        \div SlotSize

\* handleCurrentData(): the "recent" array of the response, for moisture
\* inp.m and sensor values inp.t, inp.h.  Element j takes one slot and one
\* per member; an allocation that fails is dropped without an error
handleCurrentData(h, inp) ==
    LET start == IF Len(h) > RecentWindow THEN Len(h) - RecentWindow ELSE 0
        left(j) == RecentSlots(inp) - (1 + Len(KeyOrder)) * (j - 1)
        n == Cardinality({j \in 1..(Len(h) - start) : left(j) >= 1})
    IN  [j \in 1..n |->
            [k \in {KeyOrder[i] : i \in 1..Min(Len(KeyOrder), left(j) - 1)}
                |-> Encode(h[start + j])[k]]]

\* handleFullHistory(): the array of the response; lines 364-373 build the
\* document as lines 86-95 of saveHistory do
handleFullHistory(h) == SaveDoc(h)

CsvHeader == "timestamp,moisture,temp,humidity"

\* a line whose columns are in another order
CsvLineSwapped(r) ==
    ToString(r.timestamp) \o "," \o ToString(r.temp) \o ","
        \o ToString(r.moisture) \o "," \o ToString(r.humidity)

\* lines 383-386: String(value) is the decimal form
CsvLine(r) ==
    ToString(r.timestamp) \o "," \o ToString(r.moisture) \o ","
        \o ToString(r.temp) \o "," \o ToString(r.humidity)

\* handleHistoryCSV(): the lines of the response, each ended by "\n" in the
\* body
handleHistoryCSV(h) == <<CsvHeader>> \o [i \in 1..Len(h) |-> CsvLine(h[i])]

\* -------------------------------------------------------------- state
VARIABLES
    pc,            \* "boot", "wifi" (setup waits for WiFi), "loop", "halted"
    now,           \* millis()
    lastRead,      \* static unsigned long lastRead of loop()
    history,       \* std::vector<Reading> history
    lastSaveTime,  \* unsigned long lastSaveTime
    file,          \* /history.json on LittleFS
    log,           \* history: every reading held since the history was last
                   \* empty (loaded at boot or appended), oldest first
    saved,         \* history: the in-memory history at the last successful
                   \* write of the file, if the file still is that write
    saveLog,       \* history: the saveHistory() calls of this boot session
                   \* (of a session that the model joins late: the last
                   \* call before and the calls since)
    sinceSave,     \* history: the time in ms, not reduced modulo 2^32, from
                   \* the last assignment of lastSaveTime (or the boot) to now
    nLoaded,       \* history: how many leading records came from the file
    lastOp,        \* history: the last operation that acts on the history or
                   \* the file, its inputs and outcomes
    response,      \* what server.send() sent last, if nothing has acted on
                   \* the history since
    budget,        \* rounds of loop() left to explore
    boots,         \* power losses so far
    faults         \* storage faults so far

vars == <<pc, now, lastRead, history, lastSaveTime, file, log, saved, saveLog,
          sinceSave, nLoaded, lastOp, response, budget, boots, faults>>

NoReading == Reading(0, 0, 0, 0)
NoInput == [m |-> 0, t |-> F(0), h |-> F(0)]
Op(name, inp, r, sv, ld) ==
    [op |-> name, inp |-> inp, r |-> r, save |-> sv, load |-> ld]

NotSaved == [valid |-> FALSE, hist |-> <<>>]

\* the response to a request: the route of server.on() that served it, the
\* content type of server.send() and the part of the body that is made of
\* the history
Response(uri, type, body) == [uri |-> uri, type |-> type, body |-> body]
NoResponse == Response("", "", <<>>)

\* the response of handleCurrentData: the status fields besides the
\* "recent" array, and what the handler read from the sensors
DataResponse(h, inp) ==
    [uri |-> "/data", type |-> "application/json",
     body |-> handleCurrentData(h, inp), status |-> StatusFields(inp),
     read |-> inp]

\* what addReading is called with: the spec's example, a plain sample, ties
\* of rounding, values beyond every range, and a sensor that gives no value
PlainInput == [m |-> 45, t |-> F(223), h |-> F(600)]

SensorInputs ==
    { [m |-> -5,  t |-> F(9990), h |-> F(-10)],
      PlainInput,
      [m |-> 120, t |-> F(-127), h |-> F(1015)],
      [m |-> 45,  t |-> NaN,     h |-> NaN] }

\* what handleCurrentData reads: the smoothed moisture as a percentage and
\* the DHT11, which gives values or none
DataInputs ==
    { [m |-> 45, t |-> F(223), h |-> F(600)],
      [m |-> 12, t |-> NaN,    h |-> NaN] }

\* ms from lastRead to the round of loop() that finds the sample due:
\* loop() samples when more than 5000 ms have passed since lastRead
Delays == {SampleEveryMs + 1, SAVE_INTERVAL_MS}

\* what dht.readTemperature() of line 464 may take: the DHT11 is read with
\* the line held low for some 20 ms and 40 bits received after that
DhtReadMs == 25

\* ms by which millis() moves on between its four reads in a sampling
\* round: from the test of line 461 to lastRead = millis() of line 462,
\* from there over the sensor reads of lines 464-468 to line 112 of
\* addReading, and from there to line 125.  All four in one millisecond,
\* the clock moving on by one at one of the three places, and a read of
\* the DHT11 that takes its time
NoLag == <<0, 0, 0>>
Lags == {NoLag, <<1, 0, 0>>, <<0, 1, 0>>, <<0, DhtReadMs, 0>>, <<0, 0, 1>>}

\* the sampling rounds explored, for the delays D: every input with the
\* four reads in one millisecond, and the plain sample with any lag; u is
\* what (int)round() makes of a NaN, where there is one
Calls(D) ==
    {c \in [d : D, lag : Lags, inp : SensorInputs, u : NaNAsInt] :
        /\ c.lag # NoLag => c.inp = PlainInput
        /\ (~c.inp.t.nan /\ ~c.inp.h.nan) => c.u = 0}

\* polls of setup() until WiFi is up: at once, and after as many as make
\* setup() end later than the first sample is due, at 10980 ms, from where
\* a read of the DHT11 runs into the next second
WifiPolls == {0, 19}

\* the globals as constructed, before setup() runs
Boot(f, b) ==
    /\ pc = "boot"
    /\ now = U32(0)
    /\ lastRead = U32(0)
    /\ history = <<>>
    /\ lastSaveTime = U32(0)
    /\ file = f
    /\ log = <<>>
    /\ saved = NotSaved
    /\ saveLog = <<>>
    /\ sinceSave = 0
    /\ nLoaded = 0
    /\ lastOp = Op("init", NoInput, NoReading, "none", "none")
    /\ response = NoResponse
    /\ budget = b
    /\ boots = 0
    /\ faults = 0

\* first boot: no file yet
Init == Boot(NoFile, MaxAdds)

\* setup(), lines 405-426: mount LittleFS (halt forever when that fails),
\* settle the soil sensor, loadHistory()
Setup ==
    /\ pc = "boot"
    /\ \E mountOk \in BOOLEAN, canRead \in BOOLEAN :
        /\ (~mountOk \/ ~canRead) => faults < MaxFaults
        /\ ~mountOk => canRead
        /\ ~canRead => file.kind # "absent"
        /\ faults' = IF mountOk /\ canRead THEN faults ELSE faults + 1
        /\ IF ~mountOk
           THEN /\ pc' = "halted"
                /\ lastOp' = Op("setup", NoInput, NoReading, "none", "halt")
                /\ UNCHANGED <<now, history, log, nLoaded, sinceSave>>
           ELSE /\ pc' = "wifi"
                /\ now' = Add32(now, SetupDelayMs)
                /\ sinceSave' = sinceSave + SetupDelayMs
                /\ history' = loadHistory(history, file, canRead)
                /\ log' = history'
                /\ nLoaded' = Len(history')
                /\ lastOp' = Op("setup", NoInput, NoReading, "none",
                                LoadOutcome(file, canRead))
    /\ UNCHANGED <<lastRead, lastSaveTime, file, saved, saveLog, response,
                   budget, boots>>

\* setup(), lines 428-450: poll WiFi every 480 ms until connected, start the
\* server; loop() runs from here on
WifiConnected ==
    /\ pc = "wifi"
    /\ \E polls \in WifiPolls :
        /\ now' = Add32(now, polls * WifiPollMs)
        /\ sinceSave' = sinceSave + polls * WifiPollMs
    /\ pc' = "loop"
    /\ lastOp' = Op("wifi", NoInput, NoReading, "none", "none")
    /\ UNCHANGED <<lastRead, history, lastSaveTime, file, log, saved, saveLog,
                   nLoaded, response, budget, boots, faults>>

\* millis() at the test of line 461 in the round of loop() that samples, when
\* loop() comes to that test d ms after lastRead, or in its next round when
\* that time has passed already (lastRead starts at 0: after a setup()
\* longer than d the first round samples)
Tick(d) ==
    IF Ge32(Sub32(now, lastRead), d) THEN Add32(now, LoopMs)
    ELSE Add32(lastRead, d)

\* the sampling round of loop(), lines 459-470, and its call of
\* addReading(moisture, tempC, hum), lines 110-130, d ms after lastRead, d
\* being one of D.  millis() is read four times: at line 461 (tick), at
\* line 462 for lastRead, at line 112 for the timestamp and at line 125 for
\* the save test and lastSaveTime, each the lag of c later than the one
\* before.  A lag after line 462 is explored where it shows in what the
\* program keeps: in the second of the timestamp or in a save
AddReadingAfter(D) ==
    /\ pc = "loop"
    /\ budget > 0
    /\ \E c \in Calls(D), canWrite \in BOOLEAN :
        LET inp == c.inp
            u == c.u
            tick == Tick(c.d)
            read462 == Add32(tick, c.lag[1])
            read112 == Add32(read462, c.lag[2])
            nowv == Add32(read112, c.lag[3])
            r == MakeReading(read112, inp.m, IntOfRound(inp.t, u),
                             IntOfRound(inp.h, u))
            h1 == Evict(Append(history, r))
            due == SaveDue(nowv, lastSaveTime)
            res == saveHistory(h1, file, canWrite)
        IN  /\ (c.lag[2] > 0 \/ c.lag[3] > 0)
                  => (due \/ Div1000(read112) # Div1000(read462))
            /\ ~canWrite => (due /\ faults < MaxFaults)
            /\ now' = nowv
            /\ lastRead' = read462
            /\ history' = h1
            /\ file' = IF due THEN res.file ELSE file
            /\ lastSaveTime' = NextSaveTime(nowv, lastSaveTime, due, res.ok)
            /\ log' = Append(log, r)
            /\ saved' = IF due /\ res.ok
                        THEN [valid |-> TRUE, hist |-> h1] ELSE saved
            /\ saveLog' = IF due
                          THEN Append(saveLog, [at |-> nowv, ok |-> res.ok])
                          ELSE saveLog
            /\ sinceSave' = IF due THEN 0
                          ELSE sinceSave + ToInt(Sub32(nowv, now))
            /\ nLoaded' = Max(0, nLoaded - (Len(history) + 1 - Len(h1)))
            /\ lastOp' = Op("addReading", inp, r,
                            IF ~due THEN "none"
                            ELSE IF res.ok THEN "ok" ELSE "fail", "none")
            /\ faults' = IF canWrite THEN faults ELSE faults + 1
    /\ response' = NoResponse
    /\ budget' = budget - 1
    /\ UNCHANGED <<pc, boots>>

\* addReading() at the pace of loop()
AddReading ==
    /\ AddReadingAfter(Delays)

\* addReading() called every half SAVE_INTERVAL_MS
AddReadingHalfway ==
    /\ AddReadingAfter({SAVE_INTERVAL_MS \div 2})

\* a clear that empties the memory and leaves the file
ClearMemoryOnly ==
    /\ pc = "loop"
    /\ history' = <<>>
    /\ log' = <<>>
    /\ nLoaded' = 0
    /\ lastOp' = Op("clear", NoInput, NoReading, "none",
                    IF file.kind = "absent" THEN "nofile" ELSE "removed")
    /\ response' = Response("/clearhistory", "application/json",
                             <<"cleared">>)
    /\ UNCHANGED <<pc, now, lastRead, lastSaveTime, file, saved, saveLog,
                   sinceSave, budget, boots, faults>>

\* handleClearHistory(), lines 391-395: LittleFS.remove() gives true when
\* it removed the file and false when there was none
ClearHistory ==
    /\ pc = "loop"
    /\ history' = <<>>
    /\ file' = NoFile
    /\ log' = <<>>
    /\ saved' = NotSaved
    /\ nLoaded' = 0
    /\ lastOp' = Op("clear", NoInput, NoReading, "none",
                    IF file.kind = "absent" THEN "nofile" ELSE "removed")
    /\ response' = Response("/clearhistory", "application/json",
                             <<"cleared">>)
    /\ UNCHANGED <<pc, now, lastRead, lastSaveTime, saveLog, sinceSave, budget,
                   boots, faults>>

\* A view: a GET that server.handleClient() hands to one of the four
\* handlers below, in a round of loop()
Serving == pc = "loop" /\ budget > 0

\* what no view assigns: the handlers read the history and send
Served ==
    /\ budget' = budget - 1
    /\ UNCHANGED <<pc, now, lastRead, history, lastSaveTime, file, log, saved,
                   saveLog, sinceSave, nLoaded, lastOp, boots, faults>>

\* handleRoot(), lines 136-322: the page; it does not read the history
HandleRoot ==
    /\ Serving
    /\ response' = Response("/", "text/html", <<>>)
    /\ Served

\* handleCurrentData(), lines 323-361
HandleCurrentData ==
    /\ Serving
    /\ \E inp \in DataInputs : response' = DataResponse(history, inp)
    /\ Served

\* a handler that also writes the history to the file
HandleFullHistorySaving ==
    /\ Serving
    /\ response' = Response("/history", "application/json",
                             handleFullHistory(history))
    /\ file' = saveHistory(history, file, TRUE).file
    /\ budget' = budget - 1
    /\ UNCHANGED <<pc, now, lastRead, history, lastSaveTime, log, saved,
                   saveLog, sinceSave, nLoaded, lastOp, boots, faults>>

\* handleFullHistory(), lines 363-378
HandleFullHistory ==
    /\ Serving
    /\ response' = Response("/history", "application/json",
                             handleFullHistory(history))
    /\ Served

\* handleHistoryCSV(), lines 380-389
HandleHistoryCSV ==
    /\ Serving
    /\ response' = Response("/history.csv", "text/csv",
                             handleHistoryCSV(history))
    /\ Served

\* handleNotFound(), lines 397-399, which server.onNotFound() registers for
\* every path without a route: 404, "Not Found"
HandleNotFound ==
    /\ Serving
    /\ response' = Response("*", "text/plain", <<>>)
    /\ Served

\* power is lost and comes back: the globals are constructed again, the
\* clock starts at 0, the file is what it was
PowerLoss ==
    /\ pc # "boot"
    /\ boots < MaxBoots
    /\ pc' = "boot"
    /\ now' = U32(0)
    /\ lastRead' = U32(0)
    /\ history' = <<>>
    /\ lastSaveTime' = U32(0)
    /\ log' = <<>>
    /\ saveLog' = <<>>
    /\ sinceSave' = 0
    /\ nLoaded' = 0
    /\ lastOp' = Op("restart", NoInput, NoReading, "none", "none")
    /\ response' = NoResponse
    /\ boots' = boots + 1
    /\ UNCHANGED <<file, saved, budget, faults>>

Next ==
    \/ Setup
    \/ WifiConnected
    \/ AddReading
    \/ HandleRoot
    \/ HandleCurrentData
    \/ HandleFullHistory
    \/ HandleHistoryCSV
    \/ HandleNotFound
    \/ ClearHistory
    \/ PowerLoss

Spec == Init /\ [][Next]_vars

\* ---------------------------------------------- after a long uptime
\* The state after n addReading calls of a first boot whose WiFi was up at
\* once and whose loop() sampled as early as it may, SampleEveryMs + 1 ms
\* after the last sample, call i with the in-range inputs of GenInput(i),
\* no storage fault.  The save interval then elapses at every
\* SamplesPerSave-th call.
GenInput(i) ==
    [m |-> i % 101, t |-> F(10 * ((i % 101) - 20)), h |-> F(10 * ((3 * i) % 101))]

\* millis() at sampling tick i: (SampleEveryMs + 1) * i modulo 2^32, for i
\* below 2^31 (lastRead starts at 0, so the ticks count from the boot)
ClockAt(i) ==
    Add32([hi |-> ((i \div Limb) * (SampleEveryMs + 1)) % Limb, lo |-> 0],
          (i % Limb) * (SampleEveryMs + 1))

GenReading(i) ==
    MakeReading(ClockAt(i), GenInput(i).m, Round(GenInput(i).t.tenths),
                Round(GenInput(i).h.tenths))

GenHist(lo, hi) == [j \in 1..(hi - lo + 1) |-> GenReading(lo + j - 1)]

\* the history held after call n
Held(n) == GenHist(Max(1, n - MAX_HISTORY_POINTS + 1), n)

SamplesPerSave == (SAVE_INTERVAL_MS + SampleEveryMs) \div (SampleEveryMs + 1)

Uptime(n, b) ==
    LET k == SamplesPerSave * (n \div SamplesPerSave)
    IN  /\ pc = "loop"
        /\ now = ClockAt(n)
        /\ lastRead = ClockAt(n)
        /\ history = Held(n)
        /\ lastSaveTime = IF k = 0 THEN U32(0) ELSE ClockAt(k)
        /\ file = IF k = 0 THEN NoFile ELSE ArrayFile(SaveDoc(Held(k)))
        /\ log = GenHist(1, n)
        /\ saved = IF k = 0 THEN NotSaved
                   ELSE [valid |-> TRUE, hist |-> Held(k)]
        /\ saveLog = [j \in 1..(n \div SamplesPerSave) |->
                        [at |-> ClockAt(SamplesPerSave * j), ok |-> TRUE]]
        /\ sinceSave = (SampleEveryMs + 1) * (n - k)
        /\ nLoaded = 0
        /\ lastOp = Op("addReading", GenInput(n), GenReading(n),
                       IF n = k THEN "ok" ELSE "none", "none")
        /\ response = NoResponse
        /\ budget = b
        /\ boots = 0
        /\ faults = 0

\* records one JSON document holds in full
DocRecords == DocSlots \div (1 + Len(KeyOrder))

\* uptimes, in samples, around the number of records the JSON document
\* holds, and just before the second save is due
InitDoc ==
    \E n \in {DocRecords - 1, DocRecords, 2 * SamplesPerSave - 1} :
        Uptime(n, MaxMoreAdds)

SpecDoc == InitDoc /\ [][Next]_vars

\* uptimes, in samples: around MAX_HISTORY_POINTS, and right after the first
\* save (whose file a reboot loads)
InitFull ==
    \E n \in {SamplesPerSave, MAX_HISTORY_POINTS - 1, MAX_HISTORY_POINTS,
              MAX_HISTORY_POINTS + 1} :
        Uptime(n, MaxMoreAdds)

SpecFull == InitFull /\ [][Next]_vars

\* --------------------------------- a file this sketch did not write
\* Objects of such a file: complete, lacking two fields
FileObjs ==
    { [ts |-> 7, m |-> 45, t |-> 22, h |-> 60],
      [ts |-> 8, t |-> -5] }

\* an object that lacks every field
BareObj == [k \in {} |-> 0]

\* an object whose values are beyond the ranges of the fields' types
WideObj == [ts |-> 9, m |-> 300, t |-> 200, h |-> 101]

FileArrays ==
    UNION {[1..n -> FileObjs] : n \in 0..MaxFileRecs}

\* the files of a boot: none, no byte, no JSON, a short array, a file of
\* three readings this sketch wrote, and arrays around the size the JSON
\* document holds
BootFiles ==
    {NoFile, EmptyFile, GarbageFile}
    \cup {ArrayFile(a) : a \in FileArrays}
    \cup {ArrayFile(<<BareObj>>), ArrayFile(<<WideObj>>)}
    \cup {ArrayFile(SaveDoc(GenHist(1, n))) :
             n \in {3, DocRecords, DocRecords + 1}}

InitLoad == \E f \in BootFiles : Boot(f, MaxMoreAdds)

SpecLoad == InitLoad /\ [][Next]_vars

\* ------------------------------------ saveHistory() called on its own
\* saveHistory() called wherever loop() is, whatever the history and the
\* file are (addReading calls it after its push_back only)
SaveHistoryCall ==
    /\ pc = "loop"
    /\ budget > 0
    /\ \E canWrite \in BOOLEAN :
        LET res == saveHistory(history, file, canWrite)
        IN  /\ ~canWrite => (history # <<>> /\ faults < MaxFaults)
            /\ file' = res.file
            /\ saved' = IF res.ok /\ history # <<>>
                        THEN [valid |-> TRUE, hist |-> history] ELSE saved
            /\ saveLog' = Append(saveLog, [at |-> now, ok |-> res.ok])
            /\ lastOp' = Op("saveHistory", NoInput, NoReading,
                            IF res.ok THEN "ok" ELSE "fail", "none")
            /\ faults' = IF canWrite THEN faults ELSE faults + 1
    /\ response' = NoResponse
    /\ budget' = budget - 1
    /\ UNCHANGED <<pc, now, lastRead, history, lastSaveTime, log, sinceSave,
                   nLoaded, boots>>

NextSave == Setup \/ WifiConnected \/ SaveHistoryCall

\* boots on any file, then calls of saveHistory()
SpecSave == InitLoad /\ [][NextSave]_vars

\* ------------------------------------------ a full history, then loop()
InitBrim == Uptime(MAX_HISTORY_POINTS, MaxAdds)

SpecBrim == InitBrim /\ [][Next]_vars

\* ------------------- addReading every half SAVE_INTERVAL_MS from boot
NextCadence ==
    \/ Setup
    \/ WifiConnected
    \/ AddReadingHalfway
    \/ HandleFullHistory

SpecCadence == Boot(NoFile, MaxCadenceRounds) /\ [][NextCadence]_vars

\* --------------------------------------- where millis() wraps to 0
\* the last call of addReading before millis() wraps, 49.7 days after the
\* boot, when loop() samples as for Uptime
LastCallBeforeWrap ==
    CHOOSE n \in 858000..859000 :
        ClockAt(n).hi = Limb - 1 /\ ClockAt(n + 1).hi = 0

\* The state after n such calls, handleClearHistory having served a request
\* right after call n: the history is empty and the file removed, the last
\* save was at the last multiple of SamplesPerSave
WrapUptime(n, b) ==
    LET k == SamplesPerSave * (n \div SamplesPerSave)
    IN  /\ pc = "loop"
        /\ now = ClockAt(n)
        /\ lastRead = ClockAt(n)
        /\ history = <<>>
        /\ lastSaveTime = ClockAt(k)
        /\ file = NoFile
        /\ log = <<>>
        /\ saved = NotSaved
        /\ saveLog = <<[at |-> ClockAt(k), ok |-> TRUE]>>
        /\ sinceSave = (SampleEveryMs + 1) * (n - k)
        /\ nLoaded = 0
        /\ lastOp = Op("clear", NoInput, NoReading, "none", "removed")
        /\ response = Response("/clearhistory", "application/json",
                                <<"cleared">>)
        /\ budget = b
        /\ boots = 0
        /\ faults = 0

\* just before the wrap and just after it
InitWrap ==
    \E n \in {LastCallBeforeWrap, LastCallBeforeWrap + 1} :
        WrapUptime(n, MaxAdds)

SpecWrap == InitWrap /\ [][Next]_vars

\* ============================================================ claims
Last(q) == q[Len(q)]
Suffix(q, n) == SubSeq(q, Len(q) - Min(n, Len(q)) + 1, Len(q))
\* the step is a call of addReading
AddStep ==
    /\ budget' = budget - 1
    /\ lastOp'.op = "addReading"
    /\ response' = NoResponse
\* the step is setup() with LittleFS mounted, so that loadHistory() runs
LoadStep == pc = "boot" /\ lastOp'.op = "setup" /\ lastOp'.load # "halt"
Between(x, lo, hi) == Max(lo, Min(hi, x))
\* the ms from clock value a to clock value b, across a wrap too, for
\* fewer than 2^15 * 2^16 of them
MsFrom(a, b) == ((b.hi - a.hi) % Limb) * Limb + b.lo - a.lo
\* the integers next to x tenths: the one below (or equal) and the one above
Around(x) == (x \div 10)..(x \div 10 + 1)
\* n is an integer nearest to x tenths
Nearest(n, x) == 2 * (IF 10 * n >= x THEN 10 * n - x ELSE x - 10 * n) <= 10

\* C1  Capacity: the history never holds more than MAX_HISTORY_POINTS
\* readings, and it is exactly the last MAX_HISTORY_POINTS (or all, when
\* fewer) of the readings held since it was last empty, in their order.
C1_Capacity ==
    /\ Len(history) <= MAX_HISTORY_POINTS
    /\ history = Suffix(log, MAX_HISTORY_POINTS)

\* C1 witness: an addReading has taken the number of appended readings past
\* MAX_HISTORY_POINTS and the history is full
C1_Witness ==
    /\ lastOp.op = "addReading"
    /\ budget < MaxMoreAdds
    /\ Len(log) > MAX_HISTORY_POINTS
    /\ Len(history) = MAX_HISTORY_POINTS

\* C2  Eviction order: an addReading on a full history removes the head and
\* only the head and appends the new reading at the tail; no addReading
\* removes more than one record or a record that is not the head.
C2_EvictionOrder ==
    [][AddStep =>
        /\ \E k \in {0, 1} :
             history' = Append(SubSeq(history, k + 1, Len(history)), lastOp'.r)
        /\ Len(history) = MAX_HISTORY_POINTS
             => history' = Append(Tail(history), lastOp'.r)
        /\ Len(history) < MAX_HISTORY_POINTS
             => history' = Append(history, lastOp'.r)]_vars

\* C2 witness: an addReading on a full history has evicted the oldest reading
C2_Witness ==
    /\ lastOp.op = "addReading"
    /\ budget < MaxMoreAdds
    /\ Len(history) = MAX_HISTORY_POINTS
    /\ Len(log) >= MAX_HISTORY_POINTS + 2
    /\ Last(history) = lastOp.r
    /\ history[1] = log[Len(log) - MAX_HISTORY_POINTS + 1]

\* C3  Save retry, as claimed: an addReading whose saveHistory fails leaves
\* lastSaveTime unchanged, and the addReading after a failed save calls
\* saveHistory again.
C3_RetryAfterFailedSave ==
    [][AddStep =>
        /\ lastOp'.save = "fail" => lastSaveTime' = lastSaveTime
        /\ (lastOp.op = "addReading" /\ lastOp.save = "fail")
             => lastOp'.save # "none"]_vars

\* C4  Flush cadence: any two consecutive calls of saveHistory in a boot
\* session are at least SAVE_INTERVAL_MS apart on the millis() clock, and the
\* first comes no sooner than SAVE_INTERVAL_MS after the boot.
C4_FlushCadence ==
    /\ saveLog # <<>> => Ge32(saveLog[1].at, SAVE_INTERVAL_MS)
    /\ \A j \in 2..Len(saveLog) :
        Ge32(Sub32(saveLog[j].at, saveLog[j - 1].at), SAVE_INTERVAL_MS)

\* C4 witness: saveHistory has been called twice in one boot session, the
\* first call having failed
C4_Witness ==
    /\ Len(saveLog) = 2
    /\ ~saveLog[1].ok
    /\ lastOp.save = "ok"

\* C5  Persistence round trip, as claimed: when the file is the last
\* successful write of saveHistory and setup() can read it, loadHistory
\* leaves the history that was saved.
C5_RoundTrip ==
    (lastOp.op = "setup" /\ lastOp.load \notin {"halt", "openfail"}
       /\ saved.valid)
        => history = saved.hist

\* C6  Power-loss bound, as claimed (and with no storage fault): a reading
\* of this boot session that was appended more than SAVE_INTERVAL_MS plus one
\* sampling tick ago and is still in the history is in the history that a
\* reboot would load.
C6_PowerLossBound ==
    (pc = "loop" /\ faults = 0) =>
        LET kept == loadHistory(<<>>, file, TRUE)
        IN  \A i \in (nLoaded + 1)..Len(history) :
              ToInt(now) - 1000 * (history[i].timestamp + 1)
                  >= SAVE_INTERVAL_MS + SampleEveryMs
                => \E j \in 1..Len(kept) : kept[j] = history[i]

\* C7  Domain invariant: every reading of the history has moisture in
\* 0..100, temperature in -20..80 and humidity in 0..100.
C7_Domain ==
    \A i \in 1..Len(history) :
        /\ history[i].moisture \in 0..100
        /\ history[i].temp \in -20..80
        /\ history[i].humidity \in 0..100

\* C7 witness: the history holds a reading loaded from the file and a
\* reading appended from inputs beyond every range
C7_Witness ==
    /\ nLoaded >= 1
    /\ Len(history) > nLoaded
    /\ lastOp.op = "addReading"
    /\ lastOp.inp.m < 0
    /\ lastOp.inp.t.tenths > 800

\* C8  Clamping: after addReading(m, t, h) with numbers for t and h, the
\* last reading of the history is the one built from the inputs: m limited
\* to 0..100, t and h rounded to a nearest integer and limited to -20..80
\* and 0..100; (-5, 999, -1) is stored as (0, 80, 0).
C8_Clamping ==
    (lastOp.op = "addReading" /\ ~lastOp.inp.t.nan /\ ~lastOp.inp.h.nan) =>
        /\ history # <<>>
        /\ Last(history) = lastOp.r
        /\ Last(log) = lastOp.r
        /\ lastOp.r.moisture = Between(lastOp.inp.m, 0, 100)
        /\ \E n \in Around(lastOp.inp.t.tenths) :
             /\ Nearest(n, lastOp.inp.t.tenths)
             /\ lastOp.r.temp = Between(n, -20, 80)
        /\ \E n \in Around(lastOp.inp.h.tenths) :
             /\ Nearest(n, lastOp.inp.h.tenths)
             /\ lastOp.r.humidity = Between(n, 0, 100)
        /\ lastOp.inp = [m |-> -5, t |-> F(9990), h |-> F(-10)]
             => /\ lastOp.r.moisture = 0
                /\ lastOp.r.temp = 80
                /\ lastOp.r.humidity = 0

\* C8 witness: addReading(-5, 999, -1) has stored (0, 80, 0)
C8_Witness ==
    /\ lastOp.op = "addReading"
    /\ lastOp.inp = [m |-> -5, t |-> F(9990), h |-> F(-10)]
    /\ Last(history).moisture = 0
    /\ Last(history).temp = 80
    /\ Last(history).humidity = 0

\* C9  Degraded load: when the file does not exist, cannot be opened for
\* reading, is empty or fails to parse, loadHistory leaves the history
\* empty, setup() goes on, and the file is as it was.
C9_DegradedLoad ==
    [][(LoadStep /\ (file.kind \in {"absent", "empty", "garbage"}
                     \/ lastOp'.load \in {"openfail", "error"}))
        => /\ history' = <<>>
           /\ pc' = "wifi"
           /\ file' = file
           /\ lastOp'.load # "ok"]_vars

\* C9 witness: setup() has gone on with an empty history after a file that
\* is no JSON
C9_Witness ==
    /\ lastOp.op = "setup"
    /\ file.kind = "garbage"
    /\ lastOp.load = "error"
    /\ pc = "wifi"
    /\ history = <<>>

\* a value of the object is one its field's type holds
InType(o) ==
    /\ "ts" \in DOMAIN o => o["ts"] >= 0
    /\ "m" \in DOMAIN o => o["m"] \in 0..255
    /\ "t" \in DOMAIN o => o["t"] \in -128..127
    /\ "h" \in DOMAIN o => o["h"] \in 0..255

\* C10  Tolerant decode: when loadHistory decodes an array, the history has
\* one reading per element, in order, each field being the element's value
\* (a value of the field's type) or 0 when the element lacks it.
C10_TolerantDecode ==
    (lastOp.op = "setup" /\ lastOp.load = "ok") =>
        /\ Len(history) = Len(file.elems)
        /\ \A i \in 1..Len(file.elems) :
            LET o == file.elems[i]
                Val(k) == IF k \in DOMAIN o THEN o[k] ELSE 0
            IN  InType(o) =>
                  /\ history[i].timestamp = Val("ts")
                  /\ history[i].moisture = Val("m")
                  /\ history[i].temp = Val("t")
                  /\ history[i].humidity = Val("h")

\* C10 witness: an array of a record lacking two fields and a complete
\* record has been loaded as two readings, the first with zeros
C10_Witness ==
    /\ lastOp.op = "setup"
    /\ lastOp.load = "ok"
    /\ Len(file.elems) = 2
    /\ DOMAIN file.elems[1] = {"ts", "t"}
    /\ DOMAIN file.elems[2] = Keys
    /\ Len(history) = 2
    /\ history[1].moisture = 0
    /\ history[1].humidity = 0
    /\ history[1].temp = file.elems[1]["t"]
    /\ history[2] = Decode(file.elems[2])

\* the whole history as the four-member objects of the JSON array
Encoded(h) == [i \in 1..Len(h) |-> Encode(h[i])]
\* the step is one of the four views or the answer to a path without a
\* route
ViewStep ==
    /\ budget' = budget - 1
    /\ response'.uri \in {"/", "/data", "/history", "/history.csv", "*"}
\* the step is handleClearHistory
ClearStep == lastOp'.op = "clear" /\ budget' = budget

\* C11  Save failure is contained: an addReading whose saveHistory cannot
\* open the file for writing gets failure from it, leaves the file as it
\* was, ends with its reading appended to the history it had (less the
\* evicted head) and back in loop(); every addReading after a failed save
\* appends its reading as well.
C11_SaveFailureContained ==
    [][AddStep =>
        /\ lastOp'.save = "fail" =>
             /\ ~saveHistory(history', file, FALSE).ok
             /\ file' = file
             /\ pc' = "loop"
        /\ (lastOp'.save = "fail" \/ \E j \in 1..Len(saveLog) : ~saveLog[j].ok)
             => /\ Last(history') = lastOp'.r
                /\ SubSeq(history', 1, Len(history') - 1)
                     = Suffix(history, MAX_HISTORY_POINTS - 1)]_vars

\* C11 witness: a save has failed on a file written by an earlier save; the
\* file is that write and the history holds the new reading
C11_Witness ==
    /\ lastOp.op = "addReading"
    /\ lastOp.save = "fail"
    /\ saved.valid
    /\ file = ArrayFile(SaveDoc(saved.hist))
    /\ history = Append(saved.hist, lastOp.r)

\* C12  Snapshot write, as claimed: after a successful saveHistory the file
\* holds one complete record per reading of the history, oldest first, and
\* nothing else.
C12_SnapshotWrite ==
    (lastOp.op = "addReading" /\ lastOp.save = "ok")
        => file = ArrayFile(Encoded(history))

\* C13  Save on empty is a no-op: saveHistory called with an empty history
\* gives success and leaves the file, present or absent, exactly as it was.
C13_SaveOnEmpty ==
    [][(lastOp'.op = "saveHistory" /\ budget' = budget - 1 /\ history = <<>>)
        => /\ lastOp'.save = "ok"
           /\ file' = file
           /\ history' = <<>>]_vars

\* C13 witness: saveHistory has been called with an empty history while the
\* file held records
C13_Witness ==
    /\ lastOp.op = "saveHistory"
    /\ lastOp.save = "ok"
    /\ history = <<>>
    /\ file.kind = "array"
    /\ file.elems # <<>>

\* C14  Clear is durable and idempotent: handleClearHistory leaves the
\* history empty and the file absent, whether or not there was a file, and
\* answers "cleared"; a load of what it leaves gives an empty history; a
\* second clear in a row changes nothing; and a restart with no successful
\* save since the last clear finds no file and leaves the history empty.
C14_ClearDurable ==
    /\ [][ClearStep =>
            /\ history' = <<>>
            /\ file' = NoFile
            /\ loadHistory(history', file', TRUE) = <<>>
            /\ response' = Response("/clearhistory", "application/json",
                                     <<"cleared">>)
            /\ pc' = "loop"
            /\ lastOp.op = "clear"
                 => /\ history' = history
                    /\ file' = file
                    /\ response'.body = <<"cleared">>]_vars
    /\ [](~saved.valid => file = NoFile)
    /\ []((lastOp.op = "setup" /\ lastOp.load # "halt" /\ ~saved.valid)
            => history = <<>>)

\* C14 witness: handleClearHistory has removed a file and emptied a history
\* (the readings are still in no place a restart would find)
C14_Witness ==
    /\ lastOp.op = "clear"
    /\ lastOp.load = "removed"
    /\ history = <<>>
    /\ file = NoFile
    /\ ~saved.valid
    /\ response.body = <<"cleared">>

\* C15  Full view, as claimed: the array handleFullHistory sends has one
\* entry per reading of the history, in order, with its four values.
C15_FullView ==
    response.uri = "/history" => response.body = Encoded(history)

\* C16  Recent window, as claimed: the "recent" array handleCurrentData
\* sends is the last min(20, len) readings of the history, in order, each
\* with its four values.
C16_RecentWindow ==
    response.uri = "/data"
        => response.body = Encoded(Suffix(history, RecentWindow))

\* C17  Tabular view: handleHistoryCSV sends len(history) + 1 lines, the
\* header first, then one line per reading in the order of the history with
\* the columns timestamp, moisture, temperature, humidity in decimal.
C17_TabularView ==
    response.uri = "/history.csv" =>
        /\ Len(response.body) = Len(history) + 1
        /\ response.body[1] = "timestamp,moisture,temp,humidity"
        /\ \A i \in 1..Len(history) :
             response.body[i + 1] =
                 ToString(history[i].timestamp) \o ","
                 \o ToString(history[i].moisture) \o ","
                 \o ToString(history[i].temp) \o ","
                 \o ToString(history[i].humidity)

\* C17 witness: a history of 3 readings has been sent as 4 lines
C17_Witness ==
    /\ response.uri = "/history.csv"
    /\ Len(history) = 3
    /\ Len(response.body) = 4
    /\ history[1].moisture # history[1].temp

\* C18  Views are pure: a step of handleRoot, handleCurrentData,
\* handleFullHistory or handleHistoryCSV leaves the history, lastSaveTime
\* and the file as they were and calls no saveHistory.
C18_ViewsPure ==
    [][ViewStep =>
        /\ history' = history
        /\ lastSaveTime' = lastSaveTime
        /\ file' = file
        /\ saveLog' = saveLog
        /\ saved' = saved]_vars

\* C18 witness: handleFullHistory has answered right after an addReading
\* whose save wrote the file; history and file are what that addReading left
C18_Witness ==
    /\ response.uri = "/history"
    /\ lastOp.op = "addReading"
    /\ lastOp.save = "ok"
    /\ history # <<>>
    /\ Last(history) = lastOp.r
    /\ file = ArrayFile(SaveDoc(history))
    /\ lastSaveTime = now

\* C19  No storage failure halts the device, as claimed: the sketch never
\* is in the endless loop of line 413.
C19_NoStorageHalt == pc # "halted"

\* C20  Atomic record: whatever a handler answers, the history it read was
\* at most MAX_HISTORY_POINTS long and no flush was due and not attempted
\* (the clock is no further than SAVE_INTERVAL_MS from lastSaveTime unless
\* no addReading has run yet); a step that calls saveHistory is an
\* addReading step, which neither loads nor removes the file.
C20_AtomicRecord ==
    /\ [](response # NoResponse =>
            /\ Len(history) <= MAX_HISTORY_POINTS
            /\ (lastOp.op = "addReading" /\ history # <<>>
                   /\ Last(history) = lastOp.r)
                 => /\ ~Ge32(Sub32(now, lastSaveTime), SAVE_INTERVAL_MS)
                    /\ response.uri = "/history.csv"
                         => Len(response.body) = Len(history) + 1)
    /\ [][Len(saveLog') > Len(saveLog)
            => /\ lastOp'.op = "addReading"
               /\ lastOp'.save # "none"
               /\ history' # <<>>]_vars

\* C20 witness: a view has been served right after an addReading that
\* evicted from a full history and attempted the flush that was due
C20_Witness ==
    /\ response.uri = "/history.csv"
    /\ lastOp.op = "addReading"
    /\ lastOp.save # "none"
    /\ Len(log) = MAX_HISTORY_POINTS + 1
    /\ Len(history) = MAX_HISTORY_POINTS
    /\ Last(history) = lastOp.r
    /\ Len(response.body) = MAX_HISTORY_POINTS + 1

\* C21  End-to-end save count: from boot with an empty history, addReading
\* called every half SAVE_INTERVAL_MS calls saveHistory at its second call
\* and not at its first or third, one call in all after three; and the full
\* view after the third call is the three readings in call order.
C21_SaveCount ==
    /\ Len(log) = 1 => saveLog = <<>>
    /\ Len(log) \in {2, 3} => Len(saveLog) = 1
    /\ (Len(log) = 3 /\ response.uri = "/history")
         => /\ Len(response.body) = 3
            /\ \A i \in 1..3 : response.body[i] = Encode(log[i])

\* C21 witness: addReading(45, 22.3, 60) has been called three times, one
\* save has happened, and handleFullHistory has sent three entries
C21_Witness ==
    /\ Len(log) = 3
    /\ history = log
    /\ \A i \in 1..3 :
         /\ log[i].moisture = 45 /\ log[i].temp = 22 /\ log[i].humidity = 60
    /\ log[1].timestamp < log[2].timestamp
    /\ log[2].timestamp < log[3].timestamp
    /\ Len(saveLog) = 1
    /\ saveLog[1].ok
    /\ response.uri = "/history"
    /\ Len(response.body) = 3

\* C22  Sensor unavailable: an addReading called with no value for
\* temperature and humidity appends one reading, whose moisture is the soil
\* value limited to 0..100; and when the sensor gives no value the response
\* of handleCurrentData has the no-data marker for temperature and for
\* humidity and the moisture as a number.
C22_SensorUnavailable ==
    /\ [][(AddStep /\ lastOp'.inp.t.nan /\ lastOp'.inp.h.nan) =>
            /\ log' = Append(log, lastOp'.r)
            /\ Last(history') = lastOp'.r
            /\ Len(history') = Min(Len(history) + 1, MAX_HISTORY_POINTS)
            /\ lastOp'.r.moisture = Between(lastOp'.inp.m, 0, 100)]_vars
    /\ []((response.uri = "/data"
            /\ (response.read.t.nan \/ response.read.h.nan))
           => /\ response.status.temp = NoData
              /\ response.status.humidity = NoData
              /\ response.status.moisture \in 0..100
              /\ response.status.moisture = Between(response.read.m, 0, 100))

\* C22 witness: a tick without sensor values has appended a reading with
\* the soil moisture, and handleCurrentData has then answered with the
\* marker for temperature and humidity
C22_Witness ==
    /\ lastOp.op = "addReading"
    /\ lastOp.inp.t.nan
    /\ lastOp.inp.h.nan
    /\ Last(history) = lastOp.r
    /\ lastOp.r.moisture = 45
    /\ response.uri = "/data"
    /\ response.read.t.nan
    /\ response.status.temp = NoData
    /\ response.status.humidity = NoData
    /\ response.status.moisture = 12

\* C23  Durable file cap: whenever the file is one this program wrote, the
\* history it was written from held at most MAX_HISTORY_POINTS records and
\* the file holds no more records than that history, so at most
\* MAX_HISTORY_POINTS.
C23_DurableFileCap ==
    saved.valid =>
        /\ file.kind = "array"
        /\ Len(saved.hist) <= MAX_HISTORY_POINTS
        /\ Len(file.elems) <= Len(saved.hist)
        /\ Len(file.elems) <= MAX_HISTORY_POINTS

\* C23 witness: the addReading that made the history's
\* (MAX_HISTORY_POINTS + 1)-th record evicted one and then wrote the file
\* from the full history
C23_Witness ==
    /\ saved.valid
    /\ lastOp.op = "addReading"
    /\ lastOp.save = "ok"
    /\ Len(log) = MAX_HISTORY_POINTS + 1
    /\ saved.hist = history
    /\ Len(saved.hist) = MAX_HISTORY_POINTS
    /\ file.kind = "array"

\* C24  No in-place edits: every step other than the load of setup()
\* leaves the history as it was, or empties it (a clear, or the restart
\* that constructs the globals again), or is an addReading that drops
\* k >= 0 records from the head and appends its one reading at the tail,
\* everything in between staying as it was and where it was; a step that
\* is not an addReading never adds.
C24_NoInPlaceEdits ==
    [][lastOp'.op # "setup" =>
        /\ AddStep =>
              \E k \in 0..Len(history) :
                  history' = Append(SubSeq(history, k + 1, Len(history)),
                                    lastOp'.r)
        /\ ~AddStep =>
              \/ history' = history
              \/ /\ history' = <<>>
                 /\ lastOp'.op \in {"clear", "restart"}]_vars

\* C24 witness: a second addReading on a full history has evicted again,
\* and what is held is the records from the third on with the two new
\* readings at the tail
C24_Witness ==
    /\ lastOp.op = "addReading"
    /\ Len(log) = MAX_HISTORY_POINTS + 2
    /\ Len(history) = MAX_HISTORY_POINTS
    /\ history = SubSeq(log, 3, Len(log))
    /\ Last(history) = lastOp.r
    /\ history[1] = GenReading(3)

\* C25  Chronological order within a boot session: while millis() has not
\* wrapped, the records that addReading appended since the boot (those
\* after the nLoaded records that loadHistory put there) carry timestamps
\* that never decrease along the history.
C25_ChronologicalOrder ==
    \A i \in (nLoaded + 1)..Len(history) :
        \A j \in i..Len(history) :
            history[i].timestamp <= history[j].timestamp

\* C25 witness: two readings of one boot session are held, the later one
\* with the later timestamp, the clock being the seconds since that boot
C25_Witness ==
    /\ lastOp.op = "addReading"
    /\ Len(history) = nLoaded + 2
    /\ history[nLoaded + 1].timestamp < history[nLoaded + 2].timestamp
    /\ Last(history).timestamp = ToInt(now) \div 1000

\* the file changes only in an addReading whose saveHistory() wrote it, which
\* leaves an array, and in handleClearHistory, which leaves no file;
\* loadHistory, an addReading on which no save is due and the views leave it
\* as it was
FileFrame ==
    [][/\ file' # file =>
            \/ AddStep /\ lastOp'.save = "ok" /\ file'.kind = "array"
            \/ ClearStep /\ file' = NoFile
       /\ (LoadStep \/ ViewStep \/ (AddStep /\ lastOp'.save = "none"))
            => file' = file]_vars

\* C27  File ownership, as claimed: the file is written only by saveHistory
\* and removed only by handleClearHistory, every other operation leaving it
\* as it was, and so, whenever the file is one saveHistory wrote, it holds
\* the history as it was at the last successful saveHistory, one complete
\* record per reading.
C27_FileOwnership ==
    /\ FileFrame
    /\ [](saved.valid => file = ArrayFile(Encoded(saved.hist)))

\* C26  Clock wraparound: where millis() wraps as elsewhere, an addReading
\* calls saveHistory exactly when SAVE_INTERVAL_MS or more of real time have
\* passed since lastSaveTime was assigned, and a call of saveHistory is
\* followed by lastSaveTime = now.
C26_ClockWraparound ==
    [][AddStep =>
        LET d == MsFrom(now, now')
        IN  /\ d \in LoopMs..(SAVE_INTERVAL_MS + DhtReadMs)
            /\ now' = Add32(now, d)
            /\ (lastOp'.save # "none") <=> (sinceSave + d >= SAVE_INTERVAL_MS)
            /\ lastOp'.save # "none" => lastSaveTime' = now'
            /\ lastOp'.save = "none" => lastSaveTime' = lastSaveTime]_vars

\* C26 witness: a save has fired after the wrap, the save before it having
\* been before the wrap, and the addReading after it has not saved
C26_Witness ==
    /\ lastOp.op = "addReading"
    /\ lastOp.save = "none"
    /\ Len(saveLog) = 2
    /\ saveLog[1].at.hi >= Limb \div 2
    /\ saveLog[2].at.hi < Limb \div 2
    /\ lastSaveTime = saveLog[2].at
    /\ sinceSave > 0
    /\ now.hi < Limb \div 2

====
